---- MODULE Spec2Model ----
(***************************************************************************)
(* Model of descriptastorus' MolFileIndex (byte-offset scanner, offset     *)
(* index builders, random-access reader) and of the storus batch driver.   *)
(*                                                                         *)
(* A file is a sequence of one-character strings.  The offset store        *)
(* (raw.RawStore / raw.MakeStore) is not part of the sources at hand; it   *)
(* is modelled from its specified contract: a fixed number of zero-filled  *)
(* rows of one fixed-width unsigned column, get/put by row number.         *)
(***************************************************************************)
EXTENDS Integers, Sequences, FiniteSets, TLC

VARIABLES
    file,       \* the source file's bytes
    word,       \* index(): the terminator searched for
    bsize,      \* index(): the block size of one read
    tell,       \* index(): f.tell()
    yielded,    \* index(): the offsets yielded so far, in order
    reads,      \* index(): number of loop iterations executed
    pc,         \* position of the scanner / builder / reader
    builder,    \* "smiles" (MakeSmilesIndex), "sdf" (MakeSDFIndex) or "none"
    args,       \* the builder's arguments: hasHeader, sep, smilesColumn, nameColumn
    db,         \* the offset store: rows, width, written rows, rejected writes
    mfi,        \* the MolFileIndex object's attributes
    err,        \* the exception that ended the builder / constructor, or "none"
    ret,        \* the last reader call and its outcome
    job,        \* storus: the run's inputs (N, num_cpus, batchsize, skipped rows, flags)
    drv         \* storus: the driver's local variables and the derived store

scanVars == <<word, bsize, tell, yielded, reads>>
idxVars  == <<builder, args, db, mfi, err, ret>>
vars     == <<file, word, bsize, tell, yielded, reads, pc, builder, args, db, mfi,
              err, ret, job, drv>>

---------------------------------------------------------------------------
(* Bounds of the model *)

\* longest file enumerated byte by byte (scanner specification)
MaxLen == 5
\* largest small block size tried by the scanner specification
MaxBlock == 4
\* most pieces (lines, markers) a file of the index specification is made of
MaxPieces == 3
\* largest row number a reader call is tried with
MaxIdx == 3
\* most rows the storus driver is run on
MaxRows == 3
\* most worker processes of the storus driver
MaxCpus == 2
\* the small batch size used beside the program's own
SmallBatch == 2

(* Program constants *)

\* bsize = 2**16 in index()
BlockSize == 65536
\* N < 2**8 selects numpy.uint8
Uint8Limit == 256
\* N < 2**16 selects numpy.uint16
Uint16Limit == 65536
\* batchsize = 10000 in storus
batchsize == 10000

NL == "\n"
None == "None"

Min(a, b) == IF a < b THEN a ELSE b

SetMin(S) == CHOOSE m \in S : \A n \in S : m <= n

---------------------------------------------------------------------------
(* bytes.find and the scanner index(fname, word) *)

\* buffer.find(word, from): the first 0-based position >= from at which word
\* occurs in buffer, or -1
Find(buffer, w, from) ==
    LET hits == { p \in from .. (Len(buffer) - Len(w)) :
                    \A k \in 1 .. Len(w) : buffer[p + k] = w[k] }
    IN  IF hits = {} THEN -1 ELSE SetMin(hits)

\* f.read(n) at position start: at most n bytes, fewer at the end of the file,
\* none at or beyond it; a negative n reads to the end of the file
Read(f, start, n) ==
    IF start >= Len(f) THEN << >>
    ELSE IF n < 0 THEN SubSeq(f, start + 1, Len(f))
    ELSE SubSeq(f, start + 1, Min(start + n, Len(f)))

\* a scanner that never seeks back before a read
SeekPosNoOverlap(t, overlap, fsize) == t

\* lines 144-145: where the next read starts
SeekPos(t, overlap, fsize) ==
    IF t >= overlap /\ t < fsize THEN t - overlap ELSE t

RECURSIVE YieldsFrom(_, _, _, _)
\* lines 148-151: the offsets yielded for one buffer, from match position pos on
YieldsFrom(buffer, w, pos, ftell) ==
    IF pos = -1 THEN << >>
    ELSE << ftell - (Len(buffer) - pos) >>
             \o YieldsFrom(buffer, w, Find(buffer, w, pos + 1), ftell)

\* one iteration of the while loop of index(): the buffer read, the file
\* position after it and the offsets it yields; done when the read is empty
IndexLoop(f, w, bs, t) ==
    LET start  == SeekPos(t, Len(w) - 1, Len(f))
        buffer == Read(f, start, bs)
        ftell  == start + Len(buffer)
    IN  [ done   |-> buffer = << >>,
          tell   |-> ftell,
          yields |-> IF buffer = << >> THEN << >>
                     ELSE YieldsFrom(buffer, w, Find(buffer, w, 0), ftell) ]

---------------------------------------------------------------------------
(* Specification of the scanner alone, over every small file, terminator   *)
(* and block size                                                          *)

Alphabet == { NL, "$", "a" }

BytesUpTo(n) == UNION { [1 .. k -> Alphabet] : k \in 0 .. n }

SdfWord == << "$", "$", "$", "$", NL >>

Words == { << NL >>, << "$", "$" >>, << "$", NL >>, << "a", "$", "a" >>, SdfWord }

BlockSizes == (1 .. MaxBlock) \cup { Len(SdfWord), BlockSize }

NoStore == [ rows |-> << >>, width |-> 0, written |-> {}, rejected |-> {} ]
NoIndex == [ open |-> FALSE ]
NoCall  == [ op |-> "none" ]
NoJob   == [ N |-> 0 ]
NoDrv   == [ pc |-> "none" ]

IdleIndex ==
    /\ builder = "none"
    /\ args = [ hasHeader |-> FALSE, sep |-> None, smilesColumn |-> -1, nameColumn |-> -1 ]
    /\ db = NoStore
    /\ mfi = NoIndex
    /\ err = "none"
    /\ ret = NoCall

IdleDriver == job = NoJob /\ drv = NoDrv

ScanInit ==
    /\ file \in BytesUpTo(MaxLen)
    /\ word \in Words
    /\ bsize \in { b \in BlockSizes : b >= Len(word) }
    /\ tell = 0
    /\ yielded = << >>
    /\ reads = 0
    /\ pc = "scan"
    /\ IdleIndex
    /\ IdleDriver

\* one iteration of index()'s loop that reads a non-empty buffer
ScanRead ==
    /\ pc = "scan"
    /\ LET r == IndexLoop(file, word, bsize, tell)
       IN  /\ ~r.done
           /\ tell' = r.tell
           /\ yielded' = yielded \o r.yields
    /\ reads' = reads + 1
    /\ UNCHANGED <<file, word, bsize, pc, idxVars, job, drv>>

\* the iteration whose read is empty: break, the generator is exhausted
ScanBreak ==
    /\ pc = "scan"
    /\ IndexLoop(file, word, bsize, tell).done
    /\ pc' = "scanned"
    /\ reads' = reads + 1
    /\ UNCHANGED <<file, word, bsize, tell, yielded, idxVars, job, drv>>

ScanNext == ScanRead \/ ScanBreak

SpecScan == ScanInit /\ [][ScanNext]_vars

\* every 0-based position at which w occurs in f
OccurrenceSet(f, w) ==
    { p \in 0 .. (Len(f) - Len(w)) : \A k \in 1 .. Len(w) : f[p + k] = w[k] }

RECURSIVE Ascending(_)
\* the members of a finite set of integers in increasing order
Ascending(S) ==
    IF S = {} THEN << >> ELSE << SetMin(S) >> \o Ascending(S \ { SetMin(S) })

StrictlyIncreasing(s) == \A i \in 1 .. (Len(s) - 1) : s[i] < s[i + 1]

\* C3: for every file, terminator of length >= 1 and block size >= the
\* terminator's length, the scanner stops after at most one read per byte plus
\* the final empty one, what it has yielded is strictly increasing at every
\* moment, and once it has stopped it has yielded exactly the positions at which
\* the terminator occurs in the file, each once, whatever the block size.
C3_ScannerYieldsAllOccurrences ==
    pc \in { "scan", "scanned" } =>
        /\ reads <= Len(file) + 1
        /\ StrictlyIncreasing(yielded)
        /\ \A i \in 1 .. Len(yielded) : yielded[i] \in OccurrenceSet(file, word)
        /\ pc = "scanned" => yielded = Ascending(OccurrenceSet(file, word))

\* an occurrence that straddles a block boundary has been yielded: it starts in
\* the first block and ends after it, and the scan is over
C3_Witness ==
    /\ pc = "scanned"
    /\ Len(word) >= 2
    /\ \E p \in OccurrenceSet(file, word) :
          /\ p < bsize
          /\ p + Len(word) > bsize
          /\ \E i \in 1 .. Len(yielded) : yielded[i] = p

---------------------------------------------------------------------------
(* The offset store: raw.MakeStore / raw.RawStore, from its contract *)

\* a value stored in an unsigned column of the given width in bytes keeps its
\* low-order bits; widths of 4 bytes and more hold every offset of the model
Wrap(v, width) ==
    IF width = 1 THEN v % Uint8Limit
    ELSE IF width = 2 THEN v % Uint16Limit
    ELSE v

\* raw.MakeStore(cols, n, dir): n zero-filled rows, none written yet
MakeStore(n, width) ==
    [ rows |-> [ i \in 1 .. n |-> 0 ], width |-> width, written |-> {}, rejected |-> {} ]

\* row numbers of a store
RowsOf(store) == 0 .. (Len(store.rows) - 1)

\* db.putRow(row, [v]): fails for a row outside the store
PutRow(store, row, v) ==
    IF row \in RowsOf(store)
    THEN [ store EXCEPT !.rows[row + 1] = Wrap(v, store.width),
                        !.written = @ \cup { row } ]
    ELSE [ store EXCEPT !.rejected = @ \cup { row } ]

---------------------------------------------------------------------------
(* The index builders MakeSmilesIndex and MakeSDFIndex *)

\* the number of times the one-byte string c occurs in f
CountOf(f, c) == Cardinality({ i \in 1 .. Len(f) : f[i] = c })

\* simplecount(filename): the lines a text-mode iteration of the file yields; a
\* last line without a newline counts
simplecount(f) ==
    CountOf(f, NL) + (IF Len(f) > 0 /\ f[Len(f)] # NL THEN 1 ELSE 0)

\* lines 160-168: the width in bytes of the offset column, from the line count
\* n (sz, the file's size, is computed at line 158 and not used); the model
\* reaches no count of 2**16 lines, whose widths are 4 and 8 bytes
WidthFor(n) ==
    IF n < Uint8Limit THEN 1 ELSE IF n < Uint16Limit THEN 2 ELSE 4

RECURSIVE PutRows(_, _, _)
\* lines 175-176: putRow(i+1, [pos+1]) for the offsets yielded, row by row, up
\* to the first write the store rejects
PutRows(store, row, offs) ==
    IF offs = << >> \/ store.rejected # {} THEN store
    ELSE PutRows(PutRow(store, row, Head(offs) + 1), row + 1, Tail(offs))

\* files of the index specification: an optional long first record, then a few
\* lines, empty lines, record markers and an unterminated tail
PadLen == 255

Pad == [ i \in 1 .. PadLen |-> "a" ]

Pieces == { << "a", NL >>, << "b", ",", "c", NL >>, << NL >>, << "c" >>, SdfWord }

RECURSIVE Flatten(_)
Flatten(ps) == IF ps = << >> THEN << >> ELSE Head(ps) \o Flatten(Tail(ps))

\* the file of the specification's worked example: "a,1\nbb,2\ncc,3\n"
ExampleFile ==
    << "a", ",", "1", NL, "b", "b", ",", "2", NL, "c", "c", ",", "3", NL >>

IndexFiles ==
    { pre \o Flatten(ps) :
        pre \in { << >>, Pad },
        ps \in UNION { [1 .. k -> Pieces] : k \in 0 .. MaxPieces } }
    \cup { ExampleFile }

SmilesArgs ==
    [ hasHeader : BOOLEAN, sep : { None, "," }, smilesColumn : { -1, 0 },
      nameColumn : { -1, 1 } ]

\* MakeSDFIndex opens the file with the defaults of MolFileIndex.__init__
SdfArgs == [ hasHeader |-> FALSE, sep |-> None, smilesColumn |-> -1, nameColumn |-> -1 ]

Init ==
    /\ file \in IndexFiles
    /\ builder \in { "smiles", "sdf" }
    /\ args \in (IF builder = "smiles" THEN SmilesArgs ELSE { SdfArgs })
    /\ word = (IF builder = "smiles" THEN << NL >> ELSE SdfWord)
    /\ bsize = BlockSize
    /\ tell = 0
    /\ yielded = << >>
    /\ reads = 0
    /\ pc = "start"
    /\ db = NoStore
    /\ mfi = NoIndex
    /\ err = "none"
    /\ ret = NoCall
    /\ IdleDriver

\* MakeSmilesIndex, lines 158-174: count the lines, create the store, write row 0
SmilesCreate ==
    /\ pc = "start" /\ builder = "smiles"
    /\ LET n == simplecount(file)
       IN  db' = PutRow(MakeStore(n + 1, WidthFor(n)), 0, 0)
    /\ pc' = "indexing"
    /\ UNCHANGED <<file, scanVars, builder, args, mfi, err, ret, job, drv>>

\* MakeSmilesIndex, lines 175-176: one read of the scanner and the rows written
\* for the offsets it yields; the loop ends with the scanner
SmilesIndexRows ==
    /\ pc = "indexing"
    /\ LET r == IndexLoop(file, word, bsize, tell)
           d == PutRows(db, Len(yielded) + 1, r.yields)
       IN  /\ tell' = r.tell
           /\ yielded' = yielded \o r.yields
           /\ db' = d
           /\ IF d.rejected # {}
              THEN pc' = "failed" /\ err' = "IndexOutOfRange"
              ELSE pc' = (IF r.done THEN "open" ELSE "indexing") /\ err' = err
    /\ reads' = reads + 1
    /\ UNCHANGED <<file, word, bsize, builder, args, mfi, ret, job, drv>>

\* MakeSDFIndex, line 200: indices = list(index(filename, b"$$$$\n")), one read
\* of the scanner at a time
SdfIndexRead ==
    /\ pc = "start" /\ builder = "sdf"
    /\ LET r == IndexLoop(file, word, bsize, tell)
       IN  /\ tell' = r.tell
           /\ yielded' = yielded \o r.yields
           /\ pc' = (IF r.done THEN "create" ELSE "start")
    /\ reads' = reads + 1
    /\ UNCHANGED <<file, word, bsize, idxVars, job, drv>>

\* MakeSDFIndex, lines 189-207: create the store, write row 0, then the loop
\* over indices, whose body reads the name pos, bound nowhere: NameError in the
\* first iteration
SdfCreate ==
    /\ pc = "create"
    /\ LET n == simplecount(file)
       IN  db' = PutRow(MakeStore(n + 1, WidthFor(n)), 0, 0)
    /\ IF yielded # << >>
       THEN pc' = "failed" /\ err' = "NameError"
       ELSE pc' = "open" /\ err' = err
    /\ UNCHANGED <<file, scanVars, builder, args, mfi, ret, job, drv>>

---------------------------------------------------------------------------
(* The reader MolFileIndex *)

RECURSIVE Split(_, _)
\* buf.split(sep) for a one-character sep: the fields between the separators,
\* one more than there are separators
Split(buf, sep) ==
    LET cut == { i \in 1 .. Len(buf) : buf[i] = sep }
    IN  IF cut = {} THEN << buf >>
        ELSE << SubSeq(buf, 1, SetMin(cut) - 1) >>
                 \o Split(SubSeq(buf, SetMin(cut) + 1, Len(buf)), sep)

Whitespace == { " ", NL, "\t", "\r" }

RECURSIVE Strip(_)
\* str.strip(): without its leading and trailing whitespace
Strip(str) ==
    IF str = << >> THEN str
    ELSE IF Head(str) \in Whitespace THEN Strip(Tail(str))
    ELSE IF str[Len(str)] \in Whitespace THEN Strip(SubSeq(str, 1, Len(str) - 1))
    ELSE str

\* SDFNameGetter(buffer): the record's first line, stripped
SDFNameGetter(buffer) == Strip(Split(buffer, NL)[1])

\* _get(idx), lines 87-90: the row of the offset table the read starts from;
\* isNone tells the call _get(None), whose idx is not looked at
PhysicalRow(hasHeader, isNone, idx) ==
    IF isNone THEN 0 ELSE IF hasHeader THEN idx + 1 ELSE idx

\* _get(idx), lines 92-98: the two offsets, the seek, the read and the split;
\* db.get fails outside the store's rows
RawGet(hasHeader, sep, isNone, idx) ==
    LET phys == PhysicalRow(hasHeader, isNone, idx)
    IN  IF phys \notin RowsOf(db) \/ (phys + 1) \notin RowsOf(db)
        THEN [ outcome |-> "IndexOutOfRange", phys |-> phys ]
        ELSE LET start == db.rows[phys + 1]
                 end   == db.rows[phys + 2]
                 buf   == Read(file, start, end - start - 1)
             IN  [ outcome |-> "ok", phys |-> phys, buf |-> buf,
                   size |-> IF sep # None THEN Len(Split(buf, sep)) ELSE Len(buf) ]

\* row[col] for the row _get returns: a field of the split row, or one
\* character of the unsplit buffer
Column(sep, buf, col) ==
    IF sep # None THEN Split(buf, sep)[col + 1] ELSE << buf[col + 1] >>

\* MolFileIndex.__init__, lines 27-85, over the store db
Construct(a, nameFxn) ==
    LET n      == IF a.hasHeader THEN Len(db.rows) - 3 ELSE Len(db.rows) - 2
        names  == IF a.hasHeader THEN RawGet(a.hasHeader, a.sep, TRUE, 0)
                                 ELSE RawGet(a.hasHeader, a.sep, FALSE, 0)
        row    == IF a.hasHeader THEN RawGet(a.hasHeader, a.sep, FALSE, 1)
                                 ELSE RawGet(a.hasHeader, a.sep, FALSE, 0)
        object == [ open |-> TRUE, hasHeader |-> a.hasHeader, sep |-> a.sep,
                    nameFxn |-> nameFxn, N |-> n,
                    hasSmilesColIdx |-> a.smilesColumn # -1,
                    smilesColIdx |-> a.smilesColumn,
                    hasNameidx |-> a.nameColumn # -1,
                    nameidx |-> a.nameColumn ]
    IN  IF names.outcome # "ok" THEN [ err |-> names.outcome ]
        ELSE IF row.outcome # "ok" THEN [ err |-> row.outcome ]
        ELSE IF a.smilesColumn # -1 /\ row.size <= a.smilesColumn
             THEN [ err |-> "IndexError" ]
        ELSE IF a.nameColumn # -1 /\ row.size <= a.nameColumn
             THEN [ err |-> IF a.smilesColumn # -1 THEN "IndexError"
                            ELSE "AttributeError" ]
        ELSE [ err |-> "none", object |-> object ]

\* the builder's last statement: return MolFileIndex(...); MakeSmilesIndex
\* passes no nameFxn, MakeSDFIndex passes SDFNameGetter
Open ==
    /\ pc = "open"
    /\ LET c == Construct(args, IF builder = "sdf" THEN "SDFNameGetter" ELSE None)
       IN  IF c.err = "none"
           THEN pc' = "ready" /\ mfi' = c.object /\ err' = err
           ELSE pc' = "failed" /\ mfi' = mfi /\ err' = c.err
    /\ UNCHANGED <<file, scanVars, builder, args, db, ret, job, drv>>

Call(op, idx, r) == [ op |-> op, idx |-> idx ] @@ r

\* header(), lines 100-104
Header ==
    /\ pc = "ready"
    /\ ret' = IF mfi.hasHeader
              THEN Call("header", 0, RawGet(mfi.hasHeader, mfi.sep, TRUE, 0))
              ELSE Call("header", 0, [ outcome |-> "ValueError" ])
    /\ UNCHANGED <<file, scanVars, pc, builder, args, db, mfi, err, job, drv>>

\* get(idx), lines 106-113: shifts idx when there is a header, then calls _get
Get(idx) ==
    /\ pc = "ready"
    /\ ret' = Call("get", idx,
                   RawGet(mfi.hasHeader, mfi.sep, FALSE,
                          IF mfi.hasHeader THEN idx + 1 ELSE idx))
    /\ UNCHANGED <<file, scanVars, pc, builder, args, db, mfi, err, job, drv>>

\* row[col] of _get(idx): IndexError when the row is too short
ColumnOf(idx, col) ==
    LET r == RawGet(mfi.hasHeader, mfi.sep, FALSE, idx)
    IN  IF r.outcome # "ok" THEN r
        ELSE IF r.size <= col THEN [ outcome |-> "IndexError", phys |-> r.phys ]
        ELSE [ r EXCEPT !.buf = Column(mfi.sep, r.buf, col) ]

\* getMol(idx), lines 115-118: reads the attribute smilesColIdx, which
\* __init__ sets only for a smilesColumn other than -1
GetMol(idx) ==
    /\ pc = "ready"
    /\ ret' = IF ~mfi.hasSmilesColIdx
              THEN Call("getMol", idx, [ outcome |-> "AttributeError" ])
              ELSE Call("getMol", idx, ColumnOf(idx, mfi.smilesColIdx))
    /\ UNCHANGED <<file, scanVars, pc, builder, args, db, mfi, err, job, drv>>

\* getName(idx), lines 120-127, up to the read: the attribute nameidx exists
\* only for a nameColumn other than -1, and nothing sets the attribute
\* _nameGetter that line 122 reads (the name function is kept as nameFxn), so
\* the lookup without a name column ends in an AttributeError
GetNameBranch(m) ==
    IF ~m.hasNameidx THEN "AttributeError"
    ELSE IF m.nameidx = -1 THEN "AttributeError"
    ELSE "column"

GetNameResult(idx) ==
    IF GetNameBranch(mfi) # "column" THEN [ outcome |-> GetNameBranch(mfi) ]
    ELSE ColumnOf(idx, mfi.nameidx)

GetName(idx) ==
    /\ pc = "ready"
    /\ ret' = Call("getName", idx, GetNameResult(idx))
    /\ UNCHANGED <<file, scanVars, pc, builder, args, db, mfi, err, job, drv>>

Next ==
    \/ SmilesCreate
    \/ SmilesIndexRows
    \/ SdfIndexRead
    \/ SdfCreate
    \/ Open
    \/ Header
    \/ \E idx \in 0 .. MaxIdx : Get(idx) \/ GetMol(idx) \/ GetName(idx)

Spec == Init /\ [][Next]_vars

---------------------------------------------------------------------------
(* Claims about the index builders and the reader *)

\* L: the number of newline-terminated records of a file
NewlineRecords(f) == CountOf(f, NL)

\* the 1-based positions of the newlines of f, ascending; the i-th is also the
\* 0-based position one past the i-th newline
NewlineEnds(f) == Ascending({ p \in 1 .. Len(f) : f[p] = NL })

\* the bytes of the 0-based record i of f: between the newline ending record
\* i-1 (or the start of the file) and the newline ending record i
RecordBytes(f, i) ==
    LET ends == NewlineEnds(f)
    IN  SubSeq(f, (IF i = 0 THEN 0 ELSE ends[i]) + 1, ends[i + 1] - 1)

IndexBuilt == pc \in { "open", "ready" }

\* C1: the record count N of the MolFileIndex MakeSmilesIndex returns is L
\* without a header and L-1 with one, L the number of newline-terminated
\* records of the file; 3 for the example file without a header.
C1_RecordCount ==
    (pc = "ready" /\ builder = "smiles") =>
        mfi.N = (IF mfi.hasHeader THEN NewlineRecords(file) - 1
                 ELSE NewlineRecords(file))

\* C2: without header and separator, get(i) of an index built by
\* MakeSmilesIndex returns, for every i in [0, L), exactly the bytes of record
\* i of the file, without its newline.
C2_RecordRoundTrip ==
    ( /\ pc = "ready" /\ builder = "smiles"
      /\ ~mfi.hasHeader /\ mfi.sep = None
      /\ ret.op = "get" /\ ret.idx < NewlineRecords(file) ) =>
        /\ ret.outcome = "ok"
        /\ ret.buf = RecordBytes(file, ret.idx)

\* C4: once MakeSmilesIndex has built the index, the stored offsets increase
\* strictly over rows 0..L and row L holds the position one past the last
\* newline.
C4_StoredOffsetsIncrease ==
    (IndexBuilt /\ builder = "smiles") =>
        LET L == NewlineRecords(file)
        IN  /\ \A i \in 0 .. (L - 1) : db.rows[i + 1] < db.rows[i + 2]
            /\ db.rows[L + 1] = (IF L = 0 THEN 0 ELSE NewlineEnds(file)[L])

\* C5: the store a builder creates has exactly L+1 rows, L the number of
\* occurrences of the builder's terminator in the file; no write goes outside
\* rows 0..L, and when the builder's loop is over every row 0..L has been
\* written.
C5_StoreFullyWritten ==
    (db # NoStore) =>
        LET L == Cardinality(OccurrenceSet(file, word))
        IN  /\ Len(db.rows) = L + 1
            /\ db.rejected = {}
            /\ db.written \subseteq 0 .. L
            /\ IndexBuilt => db.written = 0 .. L

\* C6: with a header, header() reads physical row 0 and get(i), getMol(i) and
\* getName(i) all read physical row i+1, for every data row i below the record
\* count.
C6_HeaderShiftOnce ==
    (pc = "ready" /\ mfi.hasHeader /\ "phys" \in DOMAIN ret) =>
        /\ ret.op = "header" => ret.phys = 0
        /\ (ret.op \in { "get", "getMol", "getName" } /\ ret.idx < mfi.N) =>
                ret.phys = ret.idx + 1

\* C7: without a name column, getName(i) of a valid row i returns the name
\* function applied to record i when one was supplied, and otherwise fails
\* with the ValueError of the missing name column, and with nothing else.
C7_GetNameWithoutColumn ==
    ( /\ pc = "ready" /\ ~mfi.hasNameidx
      /\ ret.op = "getName" /\ ret.idx < mfi.N ) =>
        IF mfi.nameFxn = None
        THEN ret.outcome = "ValueError"
        ELSE /\ ret.outcome = "ok"
             /\ ret.buf = SDFNameGetter(RawGet(mfi.hasHeader, mfi.sep, FALSE, ret.idx).buf)

\* C8: MakeSDFIndex on a file in which "$$$$\n" occurs at p_0 < ... < p_(k-1),
\* k >= 1, raises nothing and leaves offset[0] = 0 and
\* offset[i+1] = p_i + len("$$$$\n") for every i in [0, k).
C8_SdfOffsets ==
    ( /\ builder = "sdf" /\ pc \in { "open", "ready", "failed" }
      /\ OccurrenceSet(file, SdfWord) # {} ) =>
        LET p == Ascending(OccurrenceSet(file, SdfWord))
        IN  /\ err = "none"
            /\ db.rows[1] = 0
            /\ \A i \in 1 .. Len(p) :
                  /\ i + 1 <= Len(db.rows)
                  /\ db.rows[i + 1] = p[i] + Len(SdfWord)

---------------------------------------------------------------------------
(* The storus batch driver, scripts/storus.py lines 122-200 *)

\* range(a, b) as a sequence
Range(a, b) == [ k \in 1 .. (b - a) |-> a + k - 1 ]

\* what the external computation returns for row r when it does not skip it
Counts(r) == r + 1

\* process(job) / processInchi(job): the rows of the job whose computation
\* returns a non-empty result, in order
process(jobs) == SelectSeq(jobs, LAMBDA r : r \notin job.skip)

\* the interpreters the script runs under: a list comprehension's variable is
\* the enclosing i under Python 2 and a variable of its own under Python 3
Interpreters == { "python2", "python3" }

StorusJobs ==
    { j \in [ N : 0 .. MaxRows, num_cpus : 1 .. MaxCpus,
              batchsize : { SmallBatch, batchsize },
              skip : SUBSET (0 .. (MaxRows - 1)),
              nameColumn : { -1, 1 }, index_inchikey : BOOLEAN,
              python : Interpreters ] :
        j.skip \subseteq 0 .. (j.N - 1) }

\* the MolFileIndex sm that storus gets from MakeSmilesIndex (lines 111-115):
\* separator tab, smiles column 0, the name column asked for
StorusIndex(j) ==
    [ open |-> TRUE, hasHeader |-> FALSE, sep |-> "\t", nameFxn |-> None, N |-> j.N,
      hasSmilesColIdx |-> TRUE, smilesColIdx |-> 0,
      hasNameidx |-> j.nameColumn # -1, nameidx |-> j.nameColumn ]

StorusInit ==
    /\ job \in StorusJobs
    /\ mfi = StorusIndex(job)
    /\ drv = [ pc |-> "dispatch", count |-> 0, iBound |-> FALSE, i |-> 0,
               cpuidx |-> 0, joblist |-> << >>, results |-> << >>,
               s |-> [ r \in 1 .. job.N |-> 0 ],
               badColumnWarning |-> FALSE, name_cabinet |-> {}, inchies |-> {},
               err |-> "none", dispatched |-> << >> ]
    /\ file = << >>
    /\ word = << NL >>
    /\ bsize = BlockSize
    /\ tell = 0
    /\ yielded = << >>
    /\ reads = 0
    /\ pc = "storus"
    /\ builder = "smiles"
    /\ args = [ hasHeader |-> FALSE, sep |-> "\t", smilesColumn |-> 0,
                nameColumn |-> job.nameColumn ]
    /\ db = NoStore
    /\ err = "none"
    /\ ret = NoCall

notDriver == <<file, scanVars, pc, idxVars, job>>

\* lines 147-153: one worker's batch. The for loop over range(count, ...) binds
\* i only when the range is not empty; count = i+1 reads whatever i is bound
\* to, and raises NameError when it is bound to nothing
DispatchJobs ==
    /\ drv.pc = "dispatch"
    /\ drv.cpuidx < job.num_cpus
    /\ LET jobs   == Range(drv.count, Min(drv.count + job.batchsize, mfi.N))
           bound  == drv.iBound \/ jobs # << >>
           i      == IF jobs # << >> THEN jobs[Len(jobs)] ELSE drv.i
       IN  IF ~bound
           THEN drv' = [ drv EXCEPT !.pc = "crashed", !.err = "NameError" ]
           ELSE drv' = [ drv EXCEPT !.iBound = TRUE, !.i = i, !.count = i + 1,
                                    !.cpuidx = @ + 1,
                                    !.joblist = IF jobs # << >> THEN Append(@, jobs)
                                                ELSE @ ]
    /\ UNCHANGED notDriver

\* lines 154-155: no batch was built in this round: break
Break ==
    /\ drv.pc = "dispatch"
    /\ drv.cpuidx = job.num_cpus
    /\ drv.joblist = << >>
    /\ drv' = [ drv EXCEPT !.pc = "done" ]
    /\ UNCHANGED notDriver

\* lines 157-160: results = pool.map(process, joblist), one result per batch
PoolMap ==
    /\ drv.pc = "dispatch"
    /\ drv.cpuidx = job.num_cpus
    /\ drv.joblist # << >>
    /\ drv' = [ drv EXCEPT !.pc = "write",
                           !.results = [ k \in 1 .. Len(drv.joblist) |->
                                           process(drv.joblist[k]) ],
                           !.dispatched = @ \o drv.joblist ]
    /\ UNCHANGED notDriver

RECURSIVE PutAll(_, _)
\* s.putRow(i, v) for every (i, v) of a result
PutAll(store, rows) ==
    IF rows = << >> THEN store
    ELSE PutAll([ store EXCEPT ![Head(rows) + 1] = Counts(Head(rows)) ], Tail(rows))

SeqRange(q) == { q[k] : k \in 1 .. Len(q) }

\* lines 164-171: the warning for the first empty result; its list
\* comprehension over range(0, min(sm.N, 10)) rebinds i under Python 2
WarnedI(d, result) ==
    IF ~d.badColumnWarning /\ result = << >> /\ job.python = "python2" /\ mfi.N > 0
    THEN [ d EXCEPT !.iBound = TRUE, !.i = Min(mfi.N, 10) - 1,
                    !.badColumnWarning = TRUE ]
    ELSE [ d EXCEPT !.badColumnWarning = @ \/ result = << >> ]

\* lines 163-193: the body of "for result in results" for one result. Both
\* inner loops bind the driver's own i. With inchikeys the name is looked up
\* only when there is a name column; without them sm.getName(i) is called for
\* every row written
WriteResult ==
    /\ drv.pc = "write"
    /\ drv.results # << >>
    /\ LET result == Head(drv.results)
           d      == WarnedI(drv, result)
           last   == IF result = << >> THEN d.i ELSE result[Len(result)]
           named  == job.index_inchikey => job.nameColumn # -1
           fails  == named /\ GetNameBranch(mfi) # "column" /\ result # << >>
       IN  IF fails
           THEN drv' = [ d EXCEPT !.pc = "crashed", !.err = GetNameBranch(mfi),
                                  !.iBound = TRUE, !.i = Head(result),
                                  !.s = PutAll(@, << Head(result) >>),
                                  !.inchies = IF job.index_inchikey
                                              THEN @ \cup { Head(result) } ELSE @ ]
           ELSE drv' = [ d EXCEPT !.iBound = @ \/ result # << >>, !.i = last,
                                  !.s = PutAll(@, result),
                                  !.inchies = IF job.index_inchikey
                                              THEN @ \cup SeqRange(result) ELSE @,
                                  !.name_cabinet = IF named THEN @ \cup SeqRange(result)
                                                   ELSE @,
                                  !.results = Tail(@) ]
    /\ UNCHANGED notDriver

\* line 195 and back to line 145: the round is over, the next one starts
EndRound ==
    /\ drv.pc = "write"
    /\ drv.results = << >>
    /\ drv' = [ drv EXCEPT !.pc = "dispatch", !.cpuidx = 0, !.joblist = << >> ]
    /\ UNCHANGED notDriver

StorusNext == DispatchJobs \/ Break \/ PoolMap \/ WriteResult \/ EndRound

SpecStorus == StorusInit /\ [][StorusNext]_vars

Contiguous(q) == \A k \in 1 .. (Len(q) - 1) : q[k + 1] = q[k] + 1

\* C9: when the run is complete, the batches built over all rounds partition
\* [0, N): each is a contiguous ascending range of at most batchsize rows,
\* every row of [0, N) is in exactly one batch, none is dispatched again.
C9_BatchesPartitionRows ==
    (drv.pc = "done") =>
        /\ \A k \in 1 .. Len(drv.dispatched) :
              /\ Contiguous(drv.dispatched[k])
              /\ Len(drv.dispatched[k]) <= job.batchsize
        /\ \A r \in 0 .. (mfi.N - 1) :
              Cardinality({ k \in 1 .. Len(drv.dispatched) :
                              r \in SeqRange(drv.dispatched[k]) }) = 1

\* C10: in every configuration (name column or not, inchikeys or not) a run
\* over at least one record raises nothing, and when the run has ended, row i
\* of the derived store holds the value computed for record i when that result
\* is not empty, and the zero default when the record was skipped, for every i
\* in [0, N).
C10_SkippedRowsStayZero ==
    /\ mfi.N > 0 => drv.err = "none"
    /\ (drv.pc \in { "done", "crashed" }) =>
          \A r \in 0 .. (mfi.N - 1) :
              drv.s[r + 1] = (IF r \in job.skip THEN 0 ELSE Counts(r))

====
